---- MODULE Spec2Model ----
(***************************************************************************)
(* Model of bin/patch-libc.py: the scanner (traverse_tree), the identifier *)
(* and the two patchers (patch_library), the lazy generator                *)
(* (patch_libraries) and the orchestrator with its output writer (main and *)
(* the __main__ block).                                                    *)
(*                                                                         *)
(* A second part models handler and slow_call of test_handler.py: the     *)
(* pool workers, the semaphore and the queue they share.  A third part     *)
(* models the digest cache of tasks.py: cached_digest_for and the reader   *)
(* of the same file in _task_init.                                         *)
(*                                                                         *)
(* Text is modelled as a sequence of tokens: a path is the token sequence  *)
(* of its str() form, "/" being one token, so that str.startswith is       *)
(* sequence prefix and str(p)[1:] is Tail.  Bytes are naturals, a str is a *)
(* sequence of code points, and str.encode / bytes.decode are UTF-8.       *)
(***************************************************************************)
EXTENDS Integers, Sequences, FiniteSets, TLC

(***************************************************************************)
(* Bounds of the model.                                                    *)
(***************************************************************************)
\* number of optional filesystem entries added to the base tree
MaxExtra == 1
\* number of search roots handed to main
MaxRoots == 2
\* length of the window contents and replacement strings of SpecPatch
MaxStrLen == 2
\* the largest limit handed to handler, and the processes of its pool
MaxLimit == 3
MaxProcs == 2
\* the latest time of day, in seconds, the clock of the digest cache reaches
MaxNow == 452

(***************************************************************************)
(* Program constants.                                                      *)
(***************************************************************************)
\* library.read(library.symbols["defaultdir"], 16)
WindowLen == 16
\* fh.read(16)
HeaderLen == 16
\* traverse_tree(search, memo=seen, depth_limit=1)
DepthLimit == 1
\* where_is_shmfs.address + 24 + 22 + 0
PatchOffset == 24 + 22 + 0
\* "jmp 0xef91;"
JmpTarget == 61329
\* b"\x7fELF\x02\x01\x01\x00\x00\x00\x00\x00\x00\x00\x00\x00"
\* context.Semaphore(4)
SemaphoreValue == 4
\* tasks.py, line 31: 5 * 60
IMAGE_DIGEST_CACHE_TTL == 300
Magic == <<127, 69, 76, 70, 2, 1, 1, 0, 0, 0, 0, 0, 0, 0, 0, 0>>
NUL == 0
\* the str "/tmp/shm/" (the default of shm_folder) and the str "/dev/shm/"
TmpShm == <<47, 116, 109, 112, 47, 115, 104, 109, 47>>
DevShm == <<47, 100, 101, 118, 47, 115, 104, 109, 47>>
\* path.name.startswith(("ld-linux", "libpthread"))
Prefixes == {<<"ld-linux">>, <<"lib", "pthread">>}
\* ".so" not in file.name
SoMarker == <<".so">>

(***************************************************************************)
(* Sequences.                                                              *)
(***************************************************************************)
IsPrefix(p, s) == Len(p) <= Len(s) /\ SubSeq(s, 1, Len(p)) = p

Contains(s, m) ==
    \E i \in 0..(Len(s) - Len(m)) : SubSeq(s, i + 1, i + Len(m)) = m

RECURSIVE Repeat(_, _)
Repeat(x, n) == IF n <= 0 THEN <<>> ELSE <<x>> \o Repeat(x, n - 1)

RECURSIVE SeqsUpTo(_, _)
SeqsUpTo(S, n) ==
    IF n = 0 THEN {<<>>}
    ELSE SeqsUpTo(S, n - 1)
         \cup {Append(s, x) : s \in {t \in SeqsUpTo(S, n - 1) : Len(t) = n - 1}, x \in S}

(***************************************************************************)
(* str.encode() / bytes.decode(): UTF-8 over code points below 2048.       *)
(***************************************************************************)
EncodeChar(c) ==
    IF c < 128 THEN <<c>> ELSE <<192 + (c \div 64), 128 + (c % 64)>>

RECURSIVE Encode(_)
Encode(s) == IF s = <<>> THEN <<>> ELSE EncodeChar(Head(s)) \o Encode(Tail(s))

\* the decoded str, or <<-1>> where bytes.decode raises UnicodeDecodeError
DecodeError == <<-1>>

RECURSIVE Decode(_)
Decode(b) ==
    IF b = <<>> THEN <<>>
    ELSE IF b[1] < 128
         THEN LET r == Decode(Tail(b))
              IN  IF r = DecodeError THEN DecodeError ELSE <<b[1]>> \o r
    ELSE IF b[1] >= 194 /\ b[1] < 224 /\ Len(b) >= 2 /\ b[2] >= 128 /\ b[2] < 192
         THEN LET r == Decode(Tail(Tail(b)))
              IN  IF r = DecodeError THEN DecodeError
                  ELSE <<(b[1] - 192) * 64 + (b[2] - 128)>> \o r
    ELSE DecodeError

\* bytes.strip(b"\x00"): strips the byte from both ends
RECURSIVE LStripNul(_)
LStripNul(b) ==
    IF b # <<>> /\ b[1] = NUL THEN LStripNul(Tail(b)) ELSE b

RECURSIVE RStripNul(_)
RStripNul(b) ==
    IF b # <<>> /\ b[Len(b)] = NUL THEN RStripNul(SubSeq(b, 1, Len(b) - 1)) ELSE b

StripNul(b) == RStripNul(LStripNul(b))

(***************************************************************************)
(* pathlib on the token text of a path.                                    *)
(***************************************************************************)
Sep == "/"
RootPath == <<Sep>>
\* the working directory of the process, against which a relative path is read
Cwd == RootPath

IsAbs(p) == p # <<>> /\ p[1] = Sep

\* the components of a path: its text split at the separators
RECURSIVE Comps(_)
Comps(p) ==
    IF p = <<>> THEN <<>>
    ELSE IF p[1] = Sep THEN Comps(Tail(p))
    ELSE LET n == CHOOSE k \in 1..Len(p) :
                     /\ \A i \in 1..k : p[i] # Sep
                     /\ (k = Len(p) \/ p[k + 1] = Sep)
         IN  <<SubSeq(p, 1, n)>> \o Comps(SubSeq(p, n + 1, Len(p)))

\* dir / name
Child(dir, name) ==
    IF dir = RootPath THEN dir \o name ELSE dir \o <<Sep>> \o name

\* Path.name
PathName(p) ==
    LET cs == Comps(p) IN IF cs = <<>> THEN <<>> ELSE cs[Len(cs)]

\* prefix / rel, for the text rel of a relative path
PathJoin(prefix, rel) == IF rel = <<>> THEN prefix ELSE Child(prefix, rel)

RECURSIVE JoinComps(_, _)
JoinComps(base, cs) ==
    IF cs = <<>> THEN base ELSE JoinComps(Child(base, Head(cs)), Tail(cs))

\* Path.parent of an absolute path
Parent(p) ==
    LET cs == Comps(p)
    IN  IF cs = <<>> THEN RootPath
        ELSE JoinComps(RootPath, SubSeq(cs, 1, Len(cs) - 1))

\* the number of directory levels between origin and the directory holding p
LevelsBelow(origin, p) == Len(Comps(Parent(p))) - Len(Comps(origin))

(***************************************************************************)
(* The filesystem: a function from the text of a canonical absolute path   *)
(* to the node stored there.  A file holds an ELF image: its first bytes,  *)
(* its symbol and function tables, its data bytes and the jumps assembled  *)
(* into its code.                                                          *)
(***************************************************************************)
NoImage == [hdr |-> <<>>, symbols |-> {}, ddaddr |-> 0, data |-> <<>>,
            functions |-> {}, fnaddr |-> 0, jmps |-> {}]
DirNode == [kind |-> "dir", target |-> <<>>, image |-> NoImage]
LinkNode(t) == [kind |-> "link", target |-> t, image |-> NoImage]
FileNode(img) == [kind |-> "file", target |-> <<>>, image |-> img]

\* the kernel's bound on the symlinks followed in one path lookup
SymLoopMax == 4
\* the result of a lookup that fails (ENOENT, ENOTDIR, ELOOP)
NoPath == <<>>

\* path resolution as the kernel does it: cur is the canonical directory
\* reached so far, todo the components still to walk
RECURSIVE Walk(_, _, _, _, _)
Walk(f, cur, todo, fuel, followLast) ==
    IF todo = <<>> THEN cur
    ELSE LET nxt  == Child(cur, Head(todo))
             rest == Tail(todo)
         IN  IF nxt \notin DOMAIN f THEN NoPath
             ELSE IF f[nxt].kind = "link" /\ (rest # <<>> \/ followLast)
                  THEN IF fuel = 0 THEN NoPath
                       ELSE Walk(f, IF IsAbs(f[nxt].target) THEN RootPath ELSE cur,
                                 Comps(f[nxt].target) \o rest, fuel - 1, followLast)
             ELSE IF f[nxt].kind = "file" /\ rest # <<>> THEN NoPath
             ELSE Walk(f, nxt, rest, fuel, followLast)

RealPath(f, p, followLast) ==
    Walk(f, IF IsAbs(p) THEN RootPath ELSE Cwd, Comps(p), SymLoopMax, followLast)

\* Path.resolve(True); NoPath where it raises
Resolve(f, p) == RealPath(f, p, TRUE)
\* Path.is_dir(), Path.is_file(): they follow symlinks
IsDir(f, p) == LET r == RealPath(f, p, TRUE) IN r # NoPath /\ f[r].kind = "dir"
IsFile(f, p) == LET r == RealPath(f, p, TRUE) IN r # NoPath /\ f[r].kind = "file"
\* Path.is_symlink(): does not follow the last component
IsSymlink(f, p) == LET r == RealPath(f, p, FALSE) IN r # NoPath /\ f[r].kind = "link"
\* Path(os.readlink(p))
ReadLink(f, p) == f[RealPath(f, p, FALSE)].target
\* origin.iterdir(): the entries of the directory, as origin / name
IterDir(f, origin) ==
    LET r == RealPath(f, origin, TRUE)
    IN  {Child(origin, PathName(q)) : q \in {x \in DOMAIN f : x # RootPath /\ Parent(x) = r}}

\* mkdir(parents=True, exist_ok=True) and os.makedirs(exist_ok=True) succeed
\* when every component that is already there is a directory
RECURSIVE CanMakeDirs(_, _)
CanMakeDirs(f, p) ==
    IF RealPath(f, p, FALSE) # NoPath THEN IsDir(f, p)
    ELSE p # RootPath /\ CanMakeDirs(f, Parent(p))

\* the filesystem after creating the directory p and its missing parents
RECURSIVE MakeDirs(_, _)
MakeDirs(f, p) ==
    IF IsDir(f, p) \/ p = RootPath THEN f
    ELSE LET g == MakeDirs(f, Parent(p))
             d == Child(Resolve(g, Parent(p)), PathName(p))
         IN  [q \in DOMAIN g \cup {d} |-> IF q = d THEN DirNode ELSE g[q]]

\* the file that a write to path p lands in: the file p leads to, or a new
\* file in the directory p's parent leads to
WriteTarget(f, p) ==
    LET r == RealPath(f, p, TRUE)
    IN  IF r # NoPath THEN r ELSE Child(Resolve(f, Parent(p)), PathName(p))

\* open(path, "wb") succeeds: the parent is a directory, p is not one
CanWrite(f, p) == IsDir(f, Parent(p)) /\ ~IsDir(f, p)

\* ELF.save(path): misc.write(path, self.data) creates or replaces the file
WriteFile(f, p, img) ==
    LET t == WriteTarget(f, p)
    IN  [q \in DOMAIN f \cup {t} |-> IF q = t THEN FileNode(img) ELSE f[q]]

(***************************************************************************)
(* patch_library.                                                          *)
(***************************************************************************)
\* shm_folder = None
NoArg == <<-2>>

\* library.read(address, n): n bytes of the image at the address
ReadBytes(img, addr, n) == SubSeq(img.data, addr, addr + n - 1)

\* the write left out
WriteBytesNothing(img, addr, b) == img

\* the write padded with NUL bytes to the end of the window
WriteBytesPadded(img, addr, b) ==
    [img EXCEPT !.data =
        [i \in 1..Len(img.data) |->
            IF i >= addr /\ i < addr + Len(b) THEN b[i - addr + 1]
            ELSE IF i >= addr /\ i < addr + WindowLen THEN NUL
            ELSE img.data[i]]]

\* library.write(address, bytes): the bytes replace those at the address
WriteBytes(img, addr, b) ==
    [img EXCEPT !.data =
        [i \in 1..Len(img.data) |->
            IF i >= addr /\ i < addr + Len(b) THEN b[i - addr + 1] ELSE img.data[i]]]

\* the code patch left out
AsmNothing(img, addr) == img

\* the jump assembled behind the jumps that are already in the code
AsmAgain(img, addr) ==
    [img EXCEPT !.jmps = @ \cup {[at |-> addr + Cardinality(@), to |-> JmpTarget]}]

\* library.asm(address, "jmp 0xef91;"): one jump to the absolute address
\* 0xef91 is assembled at the address
Asm(img, addr) ==
    [img EXCEPT !.jmps = {j \in @ : j.at # addr} \cup {[at |-> addr, to |-> JmpTarget]}]

\* every name let through
NameAllowedAny(path) == TRUE

\* path.name.startswith(("ld-linux", "libpthread"))
NameAllowed(path) == \E pre \in Prefixes : IsPrefix(pre, PathName(path))

\* current_default, as bytes: the 16-byte window stripped of NUL bytes
CurrentDefault(img) == Decode(StripNul(ReadBytes(img, img.ddaddr, WindowLen)))

\* the length check on characters instead of encoded bytes
LengthMismatchChars(shm, cur) == Len(shm) # Len(cur)

\* len(shm_folder.encode()) != len(current_default.encode())
LengthMismatch(shm, cur) == Len(Encode(shm)) # Len(Encode(cur))

\* the gate left open
AnyFeatureAlways(has_default_dir, has_where_is_shmfs) == TRUE

\* line 58: any((has_default_dir, has_where_is_shmfs))
AnyFeature(has_default_dir, has_where_is_shmfs) == has_default_dir \/ has_where_is_shmfs

\* the result of patch_library(path, shm_folder) on the image stored at path:
\*   tag "skip"   return None without opening the file
\*   tag "none"   the image was opened, has no feature, None is returned
\*   tag "decode" bytes.decode raised
\*   tag "value"  the ValueError of the length check
\*   tag "lib"    the patched image is returned
PatchLibrary(path, img, shm_folder) ==
    IF ~NameAllowed(path) THEN [tag |-> "skip", image |-> img]
    ELSE
    LET shm == IF shm_folder = NoArg THEN TmpShm ELSE shm_folder
        has_default_dir    == "defaultdir" \in img.symbols
        has_where_is_shmfs == "where_is_shmfs" \in img.functions
        cur  == CurrentDefault(img)
        img1 == IF has_default_dir THEN WriteBytes(img, img.ddaddr, Encode(shm)) ELSE img
        img2 == IF has_where_is_shmfs THEN Asm(img1, img.fnaddr + PatchOffset) ELSE img1
    IN  IF ~AnyFeature(has_default_dir, has_where_is_shmfs) THEN [tag |-> "none", image |-> img]
        ELSE IF has_default_dir /\ cur = DecodeError THEN [tag |-> "decode", image |-> img]
        ELSE IF has_default_dir /\ LengthMismatch(shm, cur) THEN [tag |-> "value", image |-> img]
        ELSE [tag |-> "lib", image |-> img2]

(***************************************************************************)
(* The inputs: the filesystem the run finds and the arguments of main.     *)
(***************************************************************************)
Lib == <<Sep, "lib">>
LibSub == <<Sep, "lib", Sep, "sub">>
LibSubDeep == <<Sep, "lib", Sep, "sub", Sep, "deep">>
Lib64 == <<Sep, "lib", "64">>
Out == <<Sep, "out">>
Opt == <<Sep, "opt">>
OptInc == <<Sep, "opt", Sep, "inc">>
LdLinuxSo == <<"ld-linux", ".so">>
LibPthreadSo == <<"lib", "pthread", ".so">>

\* an ELF image whose 16-byte window at defaultdir holds the bytes c,
\* NUL-padded, between two guard bytes, and whose where_is_shmfs is at fa
Image(hdr, c, hasdd, fa) ==
    [hdr |-> hdr,
     symbols |-> IF hasdd THEN {"defaultdir"} ELSE {},
     ddaddr |-> 2,
     data |-> <<7>> \o c \o Repeat(NUL, WindowLen - Len(c)) \o <<7>>,
     functions |-> IF fa > 0 THEN {"where_is_shmfs"} ELSE {},
     fnaddr |-> fa,
     jmps |-> {}]

\* the loader as built: "/dev/shm/" and the detection function
GoodImage == Image(Magic, DevShm, TRUE, 100)

\* a library whose window holds one byte, and one without either feature
ShortImage == Image(Magic, <<97>>, TRUE, 200)
PlainImage == Image(Magic, <<>>, FALSE, 0)

\* headers that are not the magic: one byte off, one byte short, empty
BadHeaders ==
    { [i \in 1..HeaderLen |-> IF i = HeaderLen THEN 1 ELSE Magic[i]],
      SubSeq(Magic, 1, HeaderLen - 1),
      <<>> }

\* the tree every run finds: a loader one level and a threading library two
\* levels below /lib, /lib64 a link to /lib, and /opt, which holds no
\* library that can be patched
BaseTree ==
    { <<RootPath, DirNode>>, <<Lib, DirNode>>, <<LibSub, DirNode>>,
      <<Child(LibSub, LdLinuxSo), FileNode(GoodImage)>>,
      <<LibSubDeep, DirNode>>,
      <<Child(LibSubDeep, LibPthreadSo), FileNode(GoodImage)>>,
      <<Lib64, LinkNode(Lib)>>,
      <<Opt, DirNode>>, <<OptInc, DirNode>>,
      <<Child(Opt, <<"lib", "c", ".so">>), FileNode(GoodImage)>> }

LinkTargets ==
    { Child(LibSubDeep, LibPthreadSo), LibSubDeep, Child(Lib, LdLinuxSo),
      LdLinuxSo, Child(Lib, <<"lnk", ".so">>), Child(Lib64, <<"sub">>) }

\* the entries a tree of the run specification may have on top of the base
\* tree: more libraries, a destination, a directory named like a library,
\* a link to a library
Extras ==
    { <<Child(Lib, LdLinuxSo), FileNode(ShortImage)>>,
      <<Child(Lib, LdLinuxSo), FileNode(PlainImage)>>,
      <<Child(LibSub, LibPthreadSo), FileNode(ShortImage)>>,
      <<Child(OptInc, <<"d", ".so">>), DirNode>>,
      <<Out, DirNode>>,
      <<Out, FileNode(GoodImage)>>,
      <<Child(Lib, <<"lnk", ".so">>), LinkNode(Child(LibSubDeep, LibPthreadSo))>> }

\* the entries a tree of the scanner specification may have on top of the
\* base tree: links, files that are no ELF, names without the marker
ScanExtras ==
    { <<Child(Lib, <<"ld-linux">>), FileNode(GoodImage)>>,
      <<Child(Lib, <<"ld-linux", "-long", ".so">>),
        FileNode(Image(Magic \o <<1>>, DevShm, TRUE, 100))>>,
      <<Child(LibSub, <<"d", ".so">>), DirNode>>,
      <<Child(Lib, LdLinuxSo), FileNode(PlainImage)>> }
    \cup {<<Child(Lib, <<"ld-linux", "-bad", ".so">>), FileNode(Image(h, DevShm, TRUE, 100))>> :
            h \in BadHeaders}
    \cup {<<Child(Lib, <<"lnk", ".so">>), LinkNode(t)>> : t \in LinkTargets}

\* the filesystem made of a set of <<path, node>> pairs with distinct paths
TreeOf(es) == [p \in {e[1] : e \in es} |-> (CHOOSE e \in es : e[1] = p)[2]]

RECURSIVE SubsetsUpTo(_, _)
SubsetsUpTo(S, n) ==
    IF n = 0 THEN {{}}
    ELSE SubsetsUpTo(S, n - 1)
         \cup {T \cup {x} : T \in {U \in SubsetsUpTo(S, n - 1) : Cardinality(U) = n - 1}, x \in S}

\* the base tree with up to MaxExtra of the given entries
Trees(extras) ==
    {TreeOf(BaseTree \cup es) :
        es \in {x \in SubsetsUpTo(extras, MaxExtra) :
                   \A a, b \in x : a[1] = b[1] => a = b}}

\* write_prefix = None
NoDest == <<>>
\* the search roots, the destinations and the replacement strings of a run
RootChoices == {Lib, Lib64, Opt}
DestChoices == {NoDest, RootPath, Out}
\* the bytes of the window contents and the code points of the replacement
\* strings of SpecPatch: NUL, "a", and the two bytes of U+00E9
ByteChoices == {NUL, 97, 195, 169}
CharChoices == {NUL, 97, 233}
TmpShmPadded == TmpShm \o Repeat(NUL, WindowLen - Len(TmpShm))
ShmChoices == {TmpShm, TmpShmPadded, <<97>>}

(***************************************************************************)
(* The state of one call of handler (test_handler.py).                     *)
(***************************************************************************)
VARIABLES
    limit,           \* int(event["limit"])
    hpc,             \* where handler is: start, map1, map2, drain, returned, raised
    lock,            \* the map under way passes lock=True, queue=True
    tasks,           \* the arguments of the map no worker has taken yet
    workers,         \* the pool processes: what each is doing in slow_call
    fork_semaphore,  \* the value of _fork_semaphore
    feeder,          \* per process: values put on _fork_queue, not yet sent
    fork_queue,      \* the values in the pipe of _fork_queue
    result,          \* the results the map under way has received, by argument
    result_q         \* handler's result_q

hvars == <<limit, hpc, lock, tasks, workers, fork_semaphore, feeder, fork_queue,
           result, result_q>>

Procs == 1..MaxProcs
IdleWorker == [st |-> "idle", value |-> 0, val |-> 0]
NoResult == [t \in {} |-> 0]

\* handler is not running
HandlerIdle ==
    /\ limit = 0
    /\ hpc = "idle"
    /\ lock = FALSE
    /\ tasks = {}
    /\ workers = [p \in Procs |-> IdleWorker]
    /\ fork_semaphore = SemaphoreValue
    /\ feeder = [p \in Procs |-> <<>>]
    /\ fork_queue = <<>>
    /\ result = NoResult
    /\ result_q = <<>>

(***************************************************************************)
(* The state of the digest cache of one image tag (tasks.py).              *)
(***************************************************************************)
VARIABLES
    now,          \* time.time()
    registry,     \* the digest digests_for finds for the tag
    override,     \* the file .overrides.<tag>: NoFile, or its two lines
    base_images,  \* BASE_IMAGES[image_tag] of the running process
    call          \* history: the last call of cached_digest_for

dvars == <<now, registry, override, base_images, call>>

\* the digests a tag may have, and None
Digests == {1, 2}
None == 0
NoFile == [sha |-> None, t_s |-> -1]
NoCall == [at |-> -1, expires_in |-> 0, before |-> NoFile, after |-> NoFile,
           fresh |-> None, returned |-> None, queried |-> FALSE]

\* no call of cached_digest_for is under way and the file is not there
DigestIdle ==
    /\ now = 0
    /\ registry = 1
    /\ override = NoFile
    /\ base_images = None
    /\ call = NoCall

(***************************************************************************)
(* The state of one run of the script.                                     *)
(***************************************************************************)
VARIABLES
    fs,            \* the filesystem
    fs0,           \* the filesystem the run started on
    args,          \* main's arguments: search_paths, write_prefix, shm_folder
    pc,            \* where the run is: main, scan, follow, patch, save, done
    status,        \* "running", "ok", or the exception that ended the run
    write_prefix,  \* main's write_prefix once validated
    rootIdx,       \* the number of search roots patch_libraries has taken
    seen,          \* patch_libraries' seen, the memo of traverse_tree
    stack,         \* the active traverse_tree generators, innermost last
    file,          \* traverse_tree's loop variable
    library,       \* the ELF of the last patch_library call that opened one
    libraries,     \* main's result list
    yielded,       \* history: what traverse_tree yielded, under which root
    listed,        \* history: the directories iterdir() was called on
    hdrRead,       \* history: the paths whose header was read
    opened,        \* history: the paths opened as ELF, one per patch attempt
    saves          \* history: the files written by library.save

pvars == <<fs, fs0, args, pc, status, write_prefix, rootIdx, seen, stack, file,
           library, libraries, yielded, listed, hdrRead, opened, saves>>

vars == <<pvars, hvars, dvars>>

NoLibrary == [path |-> <<>>, image |-> NoImage, attempt |-> 0]

Top == stack[Len(stack)]
CurRoot == args.search_paths[rootIdx]

\* a new traverse_tree generator on origin: iterdir() lists it when it starts
Frame(f, origin, depth) ==
    [origin |-> origin, todo |-> IterDir(f, origin), dirs |-> <<>>, depth |-> depth]

\* the active calls of traverse_tree, outermost first: the origin of each
\* and how many directories the call that made it had still queued
Calls ==
    [k \in 1..Len(stack) |->
        [origin |-> stack[k].origin,
         left   |-> IF k = 1 THEN 0 ELSE Len(stack[k - 1].dirs)]]

SetTop(fr) == [stack EXCEPT ![Len(stack)] = fr]

\* main is entered: nothing is scanned, patched or saved yet
Start ==
    /\ fs0 = fs
    /\ pc = "main"
    /\ status = "running"
    /\ write_prefix = NoDest
    /\ rootIdx = 0
    /\ seen = {}
    /\ stack = <<>>
    /\ file = <<>>
    /\ library = NoLibrary
    /\ libraries = <<>>
    /\ yielded = <<>>
    /\ listed = {}
    /\ hdrRead = {}
    /\ opened = <<>>
    /\ saves = <<>>
    /\ HandlerIdle
    /\ DigestIdle

Init ==
    /\ fs \in Trees(Extras)
    /\ args \in [search_paths : SeqsUpTo(RootChoices, MaxRoots) \ {<<>>},
                 write_prefix : DestChoices,
                 shm_folder   : ShmChoices]
    /\ Start

\* the exception noted and the run going on
RaiseAndGoOn(e) == status' = e /\ pc' = "scan"

\* the run ends with an exception
Raise(e) == status' = e /\ pc' = "done"

\* Path == str: a Path never compares equal to a str
PathEqStr(path, str) == FALSE

(***************************************************************************)
(* main, lines 18-26: the output destination is validated.                 *)
(***************************************************************************)
\* the test of the destination left out
NotADirectoryNever(f, wp) == FALSE

\* line 25: not write_prefix.is_dir()
NotADirectory(f, wp) == ~IsDir(f, wp)

MainValidate ==
    /\ UNCHANGED <<hvars, dvars>>
    /\ pc = "main"
    /\ LET wp0 == args.write_prefix
           r   == Resolve(fs, wp0)
           mk  == r = NoPath
           wp  == IF mk THEN wp0 ELSE r
           f1  == IF mk /\ CanMakeDirs(fs, wp0) THEN MakeDirs(fs, wp0) ELSE fs
       IN  IF wp0 = NoDest
           THEN /\ pc' = "scan"
                /\ UNCHANGED <<fs, write_prefix, status>>
           ELSE IF mk /\ ~CanMakeDirs(fs, wp0)
           THEN /\ Raise("FileExistsError")
                /\ UNCHANGED <<fs, write_prefix>>
           ELSE IF NotADirectory(f1, wp)
           THEN /\ Raise("NotADirectoryError")
                /\ fs' = f1
                /\ write_prefix' = wp
           ELSE /\ pc' = "scan"
                /\ fs' = f1
                /\ write_prefix' = wp
                /\ UNCHANGED status
    /\ UNCHANGED <<fs0, args, rootIdx, seen, stack, file, library, libraries,
                   yielded, listed, hdrRead, opened, saves>>

(***************************************************************************)
(* patch_libraries, lines 135-137 (and the filter of main, line 28): the   *)
(* next search root is taken and, when it is a directory, traversed.       *)
(***************************************************************************)
NextRoot ==
    /\ UNCHANGED <<hvars, dvars>>
    /\ pc = "scan"
    /\ stack = <<>>
    /\ rootIdx < Len(args.search_paths)
    /\ rootIdx' = rootIdx + 1
    /\ LET search == args.search_paths[rootIdx + 1]
       IN  IF IsDir(fs, search)
           THEN /\ stack' = <<Frame(fs, search, 0)>>
                /\ listed' = listed \cup {[root |-> search, dir |-> search]}
           ELSE UNCHANGED <<stack, listed>>
    /\ UNCHANGED <<fs, fs0, args, pc, status, write_prefix, seen, file, library,
                   libraries, yielded, hdrRead, opened, saves>>

(***************************************************************************)
(* traverse_tree, line 102: the loop takes the next entry of the listing.  *)
(***************************************************************************)
PickEntry ==
    /\ UNCHANGED <<hvars, dvars>>
    /\ pc = "scan"
    /\ stack # <<>>
    /\ \E e \in Top.todo :
          /\ file' = e
          /\ stack' = SetTop([Top EXCEPT !.todo = @ \ {e}])
    /\ pc' = "follow"
    /\ UNCHANGED <<fs, fs0, args, status, write_prefix, rootIdx, seen, library,
                   libraries, yielded, listed, hdrRead, opened, saves>>

(***************************************************************************)
(* traverse_tree, lines 103-104: one turn of the while loop.               *)
(***************************************************************************)
\* the number of links of a filesystem
NumLinks(f) == Cardinality({p \in DOMAIN f : f[p].kind = "link"})
\* the loop of lines 103-104 started on p ends: reading the links one after
\* the other comes to a path that is no link within n of them
RECURSIVE ChainEnds(_, _, _)
ChainEnds(f, p, n) ==
    IF ~IsSymlink(f, p) THEN TRUE
    ELSE IF n = 0 THEN FALSE
    ELSE ChainEnds(f, ReadLink(f, p), n - 1)

FollowLink ==
    /\ UNCHANGED <<hvars, dvars>>
    /\ pc = "follow"
    /\ IsSymlink(fs, file)
    /\ file' = ReadLink(fs, file)
    /\ UNCHANGED <<fs, fs0, args, pc, status, write_prefix, rootIdx, seen, stack,
                   library, libraries, yielded, listed, hdrRead, opened, saves>>

(***************************************************************************)
(* traverse_tree, lines 105-120: the rest of the loop body.                *)
(***************************************************************************)
\* the comparison stopping one byte before the end of the magic
HeaderMatchesShort(img) == IsPrefix(SubSeq(Magic, 1, HeaderLen - 1), img.hdr)

\* header.startswith(magic), for header = fh.read(16)
HeaderMatches(img) ==
    IsPrefix(Magic, SubSeq(img.hdr, 1, IF Len(img.hdr) < HeaderLen THEN Len(img.hdr) ELSE HeaderLen))

\* the guard left out: every entry taken to lie under the origin
StartsWithOriginAlways(origin, path) == TRUE

\* line 106: filename.startswith(flat_origin), on the text of the two paths
StartsWithOrigin(origin, path) == IsPrefix(origin, path)

\* what the loop body does with the entry: "continue", "dir", "yield", or
\* the exception open() raises
Classify(f, origin, depth, memo, path) ==
    IF ~StartsWithOrigin(origin, path) THEN "continue"
    ELSE IF path \in memo THEN "continue"
    ELSE IF IsDir(f, path) /\ depth < DepthLimit THEN "dir"
    ELSE IF ~Contains(PathName(path), SoMarker) THEN "continue"
    ELSE IF IsDir(f, path) THEN "IsADirectoryError"
    ELSE IF ~IsFile(f, path) THEN "FileNotFoundError"
    ELSE IF ~HeaderMatches(f[Resolve(f, path)].image) THEN "badmagic"
    ELSE "yield"

Examine ==
    /\ UNCHANGED <<hvars, dvars>>
    /\ pc = "follow"
    /\ ~IsSymlink(fs, file)
    /\ LET c == Classify(fs, Top.origin, Top.depth, seen, file)
       IN  /\ hdrRead' = IF c \in {"badmagic", "yield"}
                         THEN hdrRead \cup {[root |-> CurRoot, path |-> file]}
                         ELSE hdrRead
           /\ stack' = IF c = "dir" THEN SetTop([Top EXCEPT !.dirs = Append(@, file)])
                       ELSE stack
           /\ yielded' = IF c = "yield"
                         THEN Append(yielded, [root |-> CurRoot, path |-> file,
                                               calls |-> Calls, pass |-> rootIdx])
                         ELSE yielded
           /\ IF c \in {"IsADirectoryError", "FileNotFoundError"}
              THEN Raise(c)
              ELSE /\ pc' = IF c = "yield" THEN "patch" ELSE "scan"
                   /\ UNCHANGED status
    /\ UNCHANGED <<fs, fs0, args, write_prefix, rootIdx, seen, file, library,
                   libraries, listed, opened, saves>>

(***************************************************************************)
(* traverse_tree, lines 121-123: the queued directories are traversed.     *)
(***************************************************************************)
\* a queued directory traversed while the listing still has entries
LoopDoneOrNot(fr) == TRUE

\* line 121 follows the loop of lines 102-120: the listing is used up
LoopDone(fr) == fr.todo = {}

Descend ==
    /\ UNCHANGED <<hvars, dvars>>
    /\ pc = "scan"
    /\ stack # <<>>
    /\ LoopDone(Top)
    /\ Top.dirs # <<>>
    /\ LET d == Head(Top.dirs)
       IN  /\ stack' = Append(SetTop([Top EXCEPT !.dirs = Tail(@)]),
                              Frame(fs, d, Top.depth + 1))
           /\ listed' = listed \cup {[root |-> CurRoot, dir |-> d]}
    /\ UNCHANGED <<fs, fs0, args, pc, status, write_prefix, rootIdx, seen, file,
                   library, libraries, yielded, hdrRead, opened, saves>>

\* a traverse_tree generator is exhausted
Return ==
    /\ UNCHANGED <<hvars, dvars>>
    /\ pc = "scan"
    /\ stack # <<>>
    /\ Top.todo = {}
    /\ Top.dirs = <<>>
    /\ stack' = SubSeq(stack, 1, Len(stack) - 1)
    /\ UNCHANGED <<fs, fs0, args, pc, status, write_prefix, rootIdx, seen, file,
                   library, libraries, yielded, listed, hdrRead, opened, saves>>

(***************************************************************************)
(* patch_libraries, lines 138-140: patch_library on the yielded file.      *)
(***************************************************************************)
\* a None from patch_library taken for a failure
PatchErrorOnNone(tag) ==
    IF tag = "value" THEN "ValueError"
    ELSE IF tag = "decode" THEN "UnicodeDecodeError"
    ELSE IF tag \in {"skip", "none"} THEN "TypeError"
    ELSE "no"

\* lines 138-140: the exception patch_library raises, "no" when it returns
PatchError(tag) ==
    IF tag = "value" THEN "ValueError"
    ELSE IF tag = "decode" THEN "UnicodeDecodeError"
    ELSE "no"

Patch ==
    /\ UNCHANGED <<hvars, dvars>>
    /\ pc = "patch"
    /\ LET img == fs[Resolve(fs, file)].image
           res == PatchLibrary(file, img, args.shm_folder)
       IN  /\ opened' = IF res.tag = "skip" THEN opened ELSE Append(opened, file)
           /\ library' = IF res.tag = "skip" THEN library
                         ELSE [path |-> file, image |-> res.image,
                               attempt |-> Len(opened) + 1]
           /\ IF PatchError(res.tag) # "no" THEN Raise(PatchError(res.tag))
              ELSE /\ pc' = IF res.tag = "lib" THEN "save" ELSE "scan"
                   /\ UNCHANGED status
    /\ UNCHANGED <<fs, fs0, args, write_prefix, rootIdx, seen, stack, file,
                   libraries, yielded, listed, hdrRead, saves>>

(***************************************************************************)
(* main, lines 32-45: the body of the loop over the patched libraries.     *)
(***************************************************************************)
\* the source path taken as it is, unresolved
SourcePathAsIs(f, lib) == lib.path

\* line 39: Path(library.path).resolve(True)
SourcePath(f, lib) == Resolve(f, lib.path)
\* line 40-41: write_prefix / str(source_path.parent)[1:]
DestDirectory(wp, source_path) == PathJoin(wp, Tail(Parent(source_path)))
\* the file name alone joined under the destination
DestFilenameFlat(wp, source_path) == PathJoin(wp, PathName(source_path))

\* line 42: str(write_prefix / str(source_path)[1:])
DestFilename(wp, source_path) == PathJoin(wp, Tail(source_path))

\* a destination taken to be given when it is not
WritePrefixIsNoneNever(wp) == FALSE

\* line 32: write_prefix is None
WritePrefixIsNone(wp) == wp = NoDest

MainBody ==
    /\ UNCHANGED <<hvars, dvars>>
    /\ pc = "save"
    /\ LET source_path == SourcePath(fs, library)
           dir         == DestDirectory(write_prefix, source_path)
           filename    == DestFilename(write_prefix, source_path)
           f1          == MakeDirs(fs, dir)
       IN  IF WritePrefixIsNone(write_prefix)
           THEN /\ libraries' = Append(libraries, [path |-> library.path, filename |-> NoDest,
                                                   attempt |-> library.attempt])
                /\ pc' = "scan"
                /\ UNCHANGED <<fs, saves, status>>
           ELSE IF PathEqStr(write_prefix, RootPath)
           THEN /\ fs' = WriteFile(fs, library.path, library.image)
                /\ saves' = Append(saves, [attempt |-> library.attempt, src |-> library.path,
                                           dst |-> WriteTarget(fs, library.path)])
                /\ libraries' = Append(libraries, [path |-> library.path,
                                                   filename |-> library.path,
                                                   attempt |-> library.attempt])
                /\ pc' = "scan"
                /\ UNCHANGED status
           ELSE IF ~CanMakeDirs(fs, dir)
           THEN /\ Raise("FileExistsError")
                /\ UNCHANGED <<fs, saves, libraries>>
           ELSE IF ~CanWrite(f1, filename)
           THEN /\ Raise("IsADirectoryError")
                /\ fs' = f1
                /\ UNCHANGED <<saves, libraries>>
           ELSE /\ fs' = WriteFile(f1, filename, library.image)
                /\ saves' = Append(saves, [attempt |-> library.attempt, src |-> library.path,
                                           dst |-> WriteTarget(f1, filename)])
                /\ libraries' = Append(libraries, [path |-> library.path,
                                                   filename |-> filename,
                                                   attempt |-> library.attempt])
                /\ pc' = "scan"
                /\ UNCHANGED status
    /\ UNCHANGED <<fs0, args, write_prefix, rootIdx, seen, stack, file, library,
                   yielded, listed, hdrRead, opened>>

(***************************************************************************)
(* main returns, and the __main__ block (lines 161-163) checks the result. *)
(***************************************************************************)
Finish ==
    /\ UNCHANGED <<hvars, dvars>>
    /\ pc = "scan"
    /\ stack = <<>>
    /\ rootIdx = Len(args.search_paths)
    /\ pc' = "done"
    \* "NothingPatched" is the FileNotFoundError("didn't patch anything?!")
    /\ status' = IF libraries = <<>> THEN "NothingPatched" ELSE "ok"
    /\ UNCHANGED <<fs, fs0, args, write_prefix, rootIdx, seen, stack, file,
                   library, libraries, yielded, listed, hdrRead, opened, saves>>

Next ==
    \/ MainValidate
    \/ NextRoot
    \/ PickEntry
    \/ FollowLink
    \/ Examine
    \/ Descend
    \/ Return
    \/ Patch
    \/ MainBody
    \/ Finish

Spec == Init /\ [][Next]_vars

(***************************************************************************)
(* The scanner on trees with links, files that are no ELF and names        *)
(* without the marker: runs that overwrite in place with "/tmp/shm/".      *)
(***************************************************************************)
InitScan ==
    /\ fs \in Trees(ScanExtras)
    /\ args \in [search_paths : SeqsUpTo(RootChoices, MaxRoots) \ {<<>>},
                 write_prefix : {RootPath},
                 shm_folder   : {TmpShm}]
    /\ Start

SpecScan == InitScan /\ [][Next]_vars

(***************************************************************************)
(* The patchers on every small window and replacement: one run over /lib,  *)
(* which holds one loader with the window under test.                      *)
(***************************************************************************)
\* the addresses of where_is_shmfs; 0 stands for a library without it
FnAddrChoices == {0, 100, 200}

InitPatch ==
    /\ fs \in {TreeOf(BaseTree \cup {<<Child(Lib, LdLinuxSo), FileNode(Image(Magic, c, dd, fa))>>,
                                     <<Child(Lib, <<"lnk", ".so">>), LinkNode(LdLinuxSo)>>}) :
                  c \in SeqsUpTo(ByteChoices, MaxStrLen), dd \in BOOLEAN, fa \in FnAddrChoices}
    /\ args \in [search_paths : {<<Lib>>},
                 write_prefix : {Out},
                 shm_folder   : SeqsUpTo(CharChoices, MaxStrLen) \cup {NoArg}]
    /\ Start

SpecPatch == InitPatch /\ [][Next]_vars

(***************************************************************************)
(* The scanner on trees with two links in /lib, each leading to the other  *)
(* link, to /lib, to a directory or to a library.  The script is one       *)
(* sequential process that runs until it returns or raises: whenever a     *)
(* step is possible one is taken.                                          *)
(***************************************************************************)
Lnk == Child(Lib, <<"lnk", ".so">>)
Lnk2 == Child(Lib, <<"lnk", "2", ".so">>)
LoopTargets == {Lnk, Lnk2, Lib, LibSub, Child(LibSub, LdLinuxSo)}

InitLoop ==
    /\ fs \in {TreeOf(BaseTree \cup {<<Lnk, LinkNode(t1)>>, <<Lnk2, LinkNode(t2)>>}) :
                  t1 \in LoopTargets \ {Lnk}, t2 \in LoopTargets \ {Lnk2}}
    /\ args \in [search_paths : SeqsUpTo(RootChoices, MaxRoots) \ {<<>>},
                 write_prefix : {NoDest},
                 shm_folder   : {TmpShm}]
    /\ Start

SpecLoop == InitLoop /\ [][Next]_vars /\ WF_vars(Next)

(***************************************************************************)
(* patch_library applied twice: /lib is searched two times and the library *)
(* is written in place, so the second search finds the patched library.    *)
(* /lib holds one loader with the window under test.                       *)
(***************************************************************************)
InitTwice ==
    /\ fs \in {TreeOf({<<RootPath, DirNode>>, <<Lib, DirNode>>, <<LibSub, DirNode>>,
                        <<Child(Lib, LdLinuxSo), FileNode(Image(Magic, c, dd, fa))>>,
                        <<Child(Lib, <<"lnk", ".so">>), LinkNode(LdLinuxSo)>>}) :
                  c \in SeqsUpTo(ByteChoices, MaxStrLen), dd \in BOOLEAN, fa \in FnAddrChoices}
    /\ args \in [search_paths : {<<Lib, Lib>>},
                 write_prefix : {RootPath},
                 shm_folder   : SeqsUpTo(CharChoices, MaxStrLen) \cup {NoArg}]
    /\ Start

SpecTwice == InitTwice /\ [][Next]_vars

(***************************************************************************)
(* Runs whose destination lies under a search root: the copies land in     *)
(* /lib or /lib/sub while /lib is scanned, and a later root is /lib again  *)
(* or the directory the copies of the first root are in.  The trees are    *)
(* those of SpecLoop.                                                      *)
(***************************************************************************)
LibSubLib == <<Sep, "lib", Sep, "sub", Sep, "lib">>
InsideRoots == {<<Lib>>, <<Lib, Lib>>, <<Lib, LibSubLib>>}
InsideDests == {Lib, LibSub}

InitInside ==
    /\ fs \in {TreeOf(BaseTree \cup {<<Lnk, LinkNode(t1)>>, <<Lnk2, LinkNode(t2)>>}) :
                  t1 \in LoopTargets \ {Lnk}, t2 \in LoopTargets \ {Lnk2}}
    /\ args \in [search_paths : InsideRoots,
                 write_prefix : InsideDests,
                 shm_folder   : {TmpShm}]
    /\ Start

SpecInside == InitInside /\ [][Next]_vars

(***************************************************************************)
(* test_handler.py: slow_call in the processes of the pool.                *)
(***************************************************************************)
RECURSIVE Pow(_, _)
Pow(b, e) == IF e = 0 THEN 1 ELSE b * Pow(b, e - 1)

Abs(x) == IF x < 0 THEN 0 - x ELSE x

\* line 63: op(value, abs(value - 2) or 1), op being operator.pow or .add
SlowValue(op, value) ==
    LET y == IF Abs(value - 2) = 0 THEN 1 ELSE Abs(value - 2)
    IN  IF op = "pow" THEN Pow(value, y) ELSE value + y

\* the argument put on the queue in place of the value
QueuedArgument(value, val) == value

\* line 65: queue.put(val)
Queued(value, val) == val

\* the arguments of a map: range(limit)
Range(n) == 0..(n - 1)

\* an idle process of the pool takes the next call of the map
Call(w) ==
    /\ hpc \in {"map1", "map2"}
    /\ workers[w].st = "idle"
    /\ \E t \in tasks :
          /\ tasks' = tasks \ {t}
          /\ workers' = [workers EXCEPT ![w] = [st |-> "called", value |-> t, val |-> 0]]
    /\ UNCHANGED <<limit, hpc, lock, fork_semaphore, feeder, fork_queue, result, result_q>>
    /\ UNCHANGED <<pvars, dvars>>

\* line 60: with lock or nullcontext(): a semaphore without a permit left
\* blocks, nullcontext never does
MayEnterAlways(lck, permits) == TRUE
MayEnter(lck, permits) == lck => permits > 0

\* line 60: with lock or nullcontext(): the semaphore is acquired
Enter(w) ==
    /\ workers[w].st = "called"
    /\ MayEnter(lock, fork_semaphore)
    /\ fork_semaphore' = IF lock THEN fork_semaphore - 1 ELSE fork_semaphore
    /\ workers' = [workers EXCEPT ![w].st = "inside"]
    /\ UNCHANGED <<limit, hpc, lock, tasks, feeder, fork_queue, result, result_q>>
    /\ UNCHANGED <<pvars, dvars>>

\* lines 61-65: the value is computed and, with a queue, put on it
Work(w) ==
    /\ workers[w].st = "inside"
    /\ \E op \in {"pow", "add"} :
          LET val == SlowValue(op, workers[w].value)
          IN  /\ workers' = [workers EXCEPT ![w].st = "computed", ![w].val = val]
              /\ feeder' = IF lock
                            THEN [feeder EXCEPT ![w] = Append(@, Queued(workers[w].value, val))]
                            ELSE feeder
    /\ UNCHANGED <<limit, hpc, lock, tasks, fork_semaphore, fork_queue, result, result_q>>
    /\ UNCHANGED <<pvars, dvars>>

\* line 66: the with block is left, the value returned to the map
Leave(w) ==
    /\ workers[w].st = "computed"
    /\ fork_semaphore' = IF lock THEN fork_semaphore + 1 ELSE fork_semaphore
    /\ result' = (workers[w].value :> workers[w].val) @@ result
    /\ workers' = [workers EXCEPT ![w] = IdleWorker]
    /\ UNCHANGED <<limit, hpc, lock, tasks, feeder, fork_queue, result_q>>
    /\ UNCHANGED <<pvars, dvars>>

\* a feeder thread that loses the value
PipedNowhere(pipe, val) == pipe
\* the pipe of the queue after a feeder thread has sent a value into it
Piped(pipe, val) == Append(pipe, val)

\* the feeder thread of a process sends the next value it holds into the pipe
Feed(w) ==
    /\ feeder[w] # <<>>
    /\ fork_queue' = Piped(fork_queue, Head(feeder[w]))
    /\ feeder' = [feeder EXCEPT ![w] = Tail(@)]
    /\ UNCHANGED <<limit, hpc, lock, tasks, workers, fork_semaphore, result, result_q>>
    /\ UNCHANGED <<pvars, dvars>>

(***************************************************************************)
(* test_handler.py: handler in the main process.                           *)
(***************************************************************************)
\* lines 29-38: the semaphore, the queue and the pool are made, the first
\* map is handed out
HandlerMap1 ==
    /\ hpc = "start"
    /\ hpc' = "map1"
    /\ lock' = FALSE
    /\ tasks' = Range(limit)
    /\ result' = NoResult
    /\ UNCHANGED <<limit, workers, fork_semaphore, feeder, fork_queue, result_q>>
    /\ UNCHANGED <<pvars, dvars>>

\* lines 38-40: the first map has returned, the second is handed out
HandlerMap2 ==
    /\ hpc = "map1"
    /\ DOMAIN result = Range(limit)
    /\ hpc' = "map2"
    /\ lock' = TRUE
    /\ tasks' = Range(limit)
    /\ result' = NoResult
    /\ UNCHANGED <<limit, workers, fork_semaphore, feeder, fork_queue, result_q>>
    /\ UNCHANGED <<pvars, dvars>>

\* lines 40-42: the second map has returned, handler acquires the semaphore
HandlerAcquire ==
    /\ hpc = "map2"
    /\ DOMAIN result = Range(limit)
    /\ fork_semaphore > 0
    /\ fork_semaphore' = fork_semaphore - 1
    /\ hpc' = "drain"
    /\ result_q' = <<>>
    /\ UNCHANGED <<limit, lock, tasks, workers, feeder, fork_queue, result>>
    /\ UNCHANGED <<pvars, dvars>>

\* lines 43-44: one queue.get()
HandlerGet ==
    /\ hpc = "drain"
    /\ Len(result_q) < limit
    /\ fork_queue # <<>>
    /\ result_q' = Append(result_q, Head(fork_queue))
    /\ fork_queue' = Tail(fork_queue)
    /\ UNCHANGED <<limit, hpc, lock, tasks, workers, fork_semaphore, feeder, result>>
    /\ UNCHANGED <<pvars, dvars>>

\* lines 45-48: the semaphore is released, the two sets are compared
HandlerCompare ==
    /\ hpc = "drain"
    /\ Len(result_q) = limit
    /\ fork_semaphore' = fork_semaphore + 1
    /\ hpc' = IF {result_q[i] : i \in 1..Len(result_q)} # {result[t] : t \in DOMAIN result}
              THEN "raised" ELSE "returned"
    /\ UNCHANGED <<limit, lock, tasks, workers, feeder, fork_queue, result, result_q>>
    /\ UNCHANGED <<pvars, dvars>>

HandlerNext ==
    \/ HandlerMap1
    \/ HandlerMap2
    \/ HandlerAcquire
    \/ HandlerGet
    \/ HandlerCompare
    \/ \E w \in DOMAIN workers : Call(w)
    \/ \E w \in DOMAIN workers : Enter(w)
    \/ \E w \in DOMAIN workers : Work(w)
    \/ \E w \in DOMAIN workers : Leave(w)
    \/ \E w \in DOMAIN workers : Feed(w)

\* handler is called with a limit; the script is not running
InitHandler ==
    /\ limit \in 0..MaxLimit
    /\ hpc = "start"
    /\ lock = FALSE
    /\ tasks = {}
    /\ workers = [p \in Procs |-> IdleWorker]
    /\ fork_semaphore = SemaphoreValue
    /\ feeder = [p \in Procs |-> <<>>]
    /\ fork_queue = <<>>
    /\ result = NoResult
    /\ result_q = <<>>
    /\ fs = TreeOf(BaseTree)
    /\ fs0 = fs
    /\ args = [search_paths |-> <<>>, write_prefix |-> NoDest, shm_folder |-> NoArg]
    /\ pc = "idle"
    /\ status = "running"
    /\ write_prefix = NoDest
    /\ rootIdx = 0
    /\ seen = {}
    /\ stack = <<>>
    /\ file = <<>>
    /\ library = NoLibrary
    /\ libraries = <<>>
    /\ yielded = <<>>
    /\ listed = {}
    /\ hdrRead = {}
    /\ opened = <<>>
    /\ saves = <<>>
    /\ DigestIdle

SpecHandler == InitHandler /\ [][HandlerNext]_vars

\* the main process, the processes of the pool and their feeder threads are
\* all scheduled: a step that stays possible is taken
SpecFair == InitHandler /\ [][HandlerNext]_vars /\ WF_vars(HandlerNext)

(***************************************************************************)
(* The locked map with pools of up to one process more than the semaphore  *)
(* has permits, and as many calls as the largest pool has processes.  The  *)
(* first map has returned.  The calls of a map leave the task queue of the *)
(* pool in order; the processes of a pool are interchangeable, so the      *)
(* lowest idle one takes the call.                                         *)
(***************************************************************************)
PoolSizes == 1..(SemaphoreValue + 1)

\* what the first map returned when every call drew the same operator
FirstResults ==
    {[t \in Range(SemaphoreValue + 1) |-> SlowValue(op, t)] : op \in {"pow", "add"}}

CallInOrder(w) ==
    /\ \A v \in DOMAIN workers : workers[v].st = "idle" => w <= v
    /\ Call(w)
    /\ \A t \in tasks' : workers'[w].value < t

\* the steps of the locked map up to its return.  The feeder threads and the
\* reads of the main process come after the section and touch neither the
\* semaphore nor the calls: the values put stay with the feeders here.
PoolNext ==
    \/ HandlerMap2
    \/ \E w \in DOMAIN workers : CallInOrder(w)
    \/ \E w \in DOMAIN workers : Enter(w)
    \/ \E w \in DOMAIN workers : Work(w)
    \/ \E w \in DOMAIN workers : Leave(w)

InitPool ==
    /\ limit = SemaphoreValue + 1
    /\ hpc = "map1"
    /\ lock = FALSE
    /\ tasks = {}
    /\ \E n \in PoolSizes :
          /\ workers = [p \in 1..n |-> IdleWorker]
          /\ feeder = [p \in 1..n |-> <<>>]
    /\ fork_semaphore = SemaphoreValue
    /\ fork_queue = <<>>
    /\ result \in FirstResults
    /\ result_q = <<>>
    /\ fs = TreeOf(BaseTree)
    /\ fs0 = fs
    /\ args = [search_paths |-> <<>>, write_prefix |-> NoDest, shm_folder |-> NoArg]
    /\ pc = "idle"
    /\ status = "running"
    /\ write_prefix = NoDest
    /\ rootIdx = 0
    /\ seen = {}
    /\ stack = <<>>
    /\ file = <<>>
    /\ library = NoLibrary
    /\ libraries = <<>>
    /\ yielded = <<>>
    /\ listed = {}
    /\ hdrRead = {}
    /\ opened = <<>>
    /\ saves = <<>>
    /\ DigestIdle

SpecPool == InitPool /\ [][PoolNext]_vars

(***************************************************************************)
(* tasks.py: the digest cache.  Time is counted in whole seconds.          *)
(***************************************************************************)
\* the steps of the clock between two calls: half the default TTL, or a
\* second more
HalfTtl == IMAGE_DIGEST_CACHE_TTL \div 2
TickChoices == {HalfTtl, HalfTtl + 1}
\* the expires_in a caller passes: the default, or half of it
ExpiresChoices == {IMAGE_DIGEST_CACHE_TTL, HalfTtl}

\* time passes
Tick ==
    /\ \E d \in TickChoices :
          /\ now + d <= MaxNow
          /\ now' = now + d
    /\ UNCHANGED <<registry, override, base_images, call>>
    /\ UNCHANGED <<pvars, hvars>>

\* the tag is pulled again: digests_for finds another digest for it
Push ==
    /\ \E d \in Digests \ {registry} : registry' = d
    /\ UNCHANGED <<now, override, base_images, call>>
    /\ UNCHANGED <<pvars, hvars>>

\* lines 400-402: ttl = t_s - time.time(); if ttl < expires_in: return image_sha
ServedFromFile(t_s, t, expires_in) == t_s - t < expires_in

\* lines 408-409: the two lines written to the file
Written(image_sha, t, expires_in) == [sha |-> image_sha, t_s |-> t + expires_in]

\* cached_digest_for(context, image_tag, expires_in), lines 387-410
CachedDigestFor ==
    /\ \E expires_in \in ExpiresChoices :
          IF override # NoFile /\ ServedFromFile(override.t_s, now, expires_in)
          THEN /\ call' = [at |-> now, expires_in |-> expires_in, before |-> override,
                           after |-> override, fresh |-> registry,
                           returned |-> override.sha, queried |-> FALSE]
               /\ UNCHANGED override
          ELSE \* the file is not there, or it was removed on line 406
               /\ override' = Written(registry, now, expires_in)
               /\ call' = [at |-> now, expires_in |-> expires_in, before |-> override,
                           after |-> Written(registry, now, expires_in), fresh |-> registry,
                           returned |-> registry, queried |-> TRUE]
    /\ UNCHANGED <<now, registry, base_images>>
    /\ UNCHANGED <<pvars, hvars>>

\* _task_init, lines 36-62, for a tag that BASE_IMAGES maps to None (pinned
\* FALSE) or to a digest (pinned TRUE), when a process imports tasks.py
TaskInit ==
    /\ \E pinned \in BOOLEAN :
          LET source == IF pinned THEN registry ELSE None
          IN  IF override = NoFile
              THEN /\ base_images' = source
                   /\ UNCHANGED override
              ELSE IF pinned
              THEN /\ override' = NoFile
                   /\ base_images' = source
              ELSE IF override.t_s - now > 0
              THEN /\ base_images' = override.sha
                   /\ UNCHANGED override
              ELSE /\ override' = NoFile
                   /\ base_images' = source
    /\ UNCHANGED <<now, registry, call>>
    /\ UNCHANGED <<pvars, hvars>>

DigestNext ==
    \/ Tick
    \/ Push
    \/ CachedDigestFor
    \/ TaskInit

\* the clock starts at 0 and no file is there; the script and handler are
\* not running
InitDigest ==
    /\ now = 0
    /\ registry \in Digests
    /\ override = NoFile
    /\ base_images = None
    /\ call = NoCall
    /\ HandlerIdle
    /\ fs = TreeOf(BaseTree)
    /\ fs0 = fs
    /\ args = [search_paths |-> <<>>, write_prefix |-> NoDest, shm_folder |-> NoArg]
    /\ pc = "idle"
    /\ status = "running"
    /\ write_prefix = NoDest
    /\ rootIdx = 0
    /\ seen = {}
    /\ stack = <<>>
    /\ file = <<>>
    /\ library = NoLibrary
    /\ libraries = <<>>
    /\ yielded = <<>>
    /\ listed = {}
    /\ hdrRead = {}
    /\ opened = <<>>
    /\ saves = <<>>

SpecDigest == InitDigest /\ [][DigestNext]_vars

(***************************************************************************)
(* Vocabulary of the properties.                                           *)
(***************************************************************************)
\* the replacement string the run patches in
ShmFolder == IF args.shm_folder = NoArg THEN TmpShm ELSE args.shm_folder
\* the image stored in the file a path leads to
OnDisk(f, p) == f[Resolve(f, p)].image
\* the 16 bytes at the defaultdir symbol
Window(img) == ReadBytes(img, img.ddaddr, WindowLen)
\* the files of a filesystem with their content
FilesOf(f) == {<<p, f[p]>> : p \in {q \in DOMAIN f : f[q].kind = "file"}}
\* the first 16 bytes of the file are the magic
ExactMagic(img) ==
    /\ Len(img.hdr) >= HeaderLen
    /\ \A i \in 1..HeaderLen : img.hdr[i] = Magic[i]
\* path p lies in directory d or below it
Under(d, p) == d # NoPath /\ p # NoPath /\ IsPrefix(Comps(d), Comps(p))
\* a file that passes the filename, magic and feature criteria
Qualifies(f, p) ==
    /\ f[p].kind = "file"
    /\ NameAllowed(p)
    /\ Contains(PathName(p), SoMarker)
    /\ ExactMagic(f[p].image)
    /\ (f[p].image.symbols # {} \/ f[p].image.functions # {})

(***************************************************************************)
(* C1 as claimed.  String patch success: whenever patch_library has        *)
(* patched a library that has the defaultdir symbol (the length check      *)
(* passed), the 16-byte window read back and stripped of NUL bytes is      *)
(* exactly the replacement, and every byte of the window after the         *)
(* replacement is NUL.                                                     *)
(***************************************************************************)
ReadsBack(img, shm) ==
    LET w == Window(img)
    IN  /\ StripNul(w) = Encode(shm)
        /\ \A i \in (Len(Encode(shm)) + 1)..WindowLen : w[i] = NUL

\* C1: every library with defaultdir that is about to be saved reads back as
\* the replacement followed only by NUL bytes
C1_StringPatchSuccess ==
    (pc = "save" /\ "defaultdir" \in library.image.symbols) =>
        ReadsBack(library.image, ShmFolder)

(***************************************************************************)
(* C1 as amended.  For a library that has the defaultdir symbol and whose  *)
(* window does not begin with a NUL byte, and a replacement that neither   *)
(* begins nor ends with a NUL character and whose encoded length equals    *)
(* that of the current value, patch_library returns the library, and the   *)
(* window read back and stripped is exactly the replacement, followed only *)
(* by NUL bytes.                                                           *)
(***************************************************************************)
NulFree(shm) == shm # <<>> /\ shm[1] # NUL /\ shm[Len(shm)] # NUL

C1_Applies(path, img) ==
    /\ NameAllowed(path)
    /\ "defaultdir" \in img.symbols
    /\ Window(img)[1] # NUL
    /\ NulFree(ShmFolder)
    /\ Decode(StripNul(Window(img))) # DecodeError
    /\ Len(Encode(ShmFolder)) = Len(Encode(Decode(StripNul(Window(img)))))

\* C1 as amended: the read-back holds when the window does not begin with NUL
\* and the replacement has no NUL at either end, and such a patch never fails
C1_StringPatchSuccessAmended ==
    /\ (pc = "patch" /\ C1_Applies(file, OnDisk(fs, file))) =>
           PatchLibrary(file, OnDisk(fs, file), args.shm_folder).tag = "lib"
    /\ (pc = "save" /\ C1_Applies(library.path, OnDisk(fs, library.path))) =>
           ReadsBack(library.image, ShmFolder)
    /\ (status \in {"ValueError", "UnicodeDecodeError"}) =>
           ~C1_Applies(library.path, OnDisk(fs, library.path))

\* a window was replaced by a different string of the same length
C1_Witness ==
    /\ pc = "save"
    /\ C1_Applies(library.path, OnDisk(fs, library.path))
    /\ Window(library.image) # Window(OnDisk(fs, library.path))

(***************************************************************************)
(* C2.  String patch length mismatch: a library with the defaultdir symbol *)
(* is returned by patch_library only when the encoded length of the        *)
(* replacement equals that of the current value; when the lengths differ   *)
(* the ValueError is raised with the image as it was read from the file,   *)
(* the library is not in main's list and no file was saved for it.         *)
(***************************************************************************)
C2_MismatchFails ==
    /\ (pc = "save" /\ "defaultdir" \in library.image.symbols) =>
           Len(Encode(ShmFolder)) = Len(StripNul(Window(OnDisk(fs, library.path))))
    /\ status = "ValueError" =>
           /\ Len(Encode(ShmFolder)) # Len(StripNul(Window(OnDisk(fs, library.path))))
           /\ library.image = OnDisk(fs, library.path)
           /\ \A i \in 1..Len(saves) : saves[i].attempt # library.attempt
           /\ \A i \in 1..Len(libraries) : libraries[i].attempt # library.attempt

\* a run that ended in the ValueError of the length check
C2_Witness ==
    /\ status = "ValueError"
    /\ "defaultdir" \in library.image.symbols
    /\ args.write_prefix # NoDest

(***************************************************************************)
(* C3.  Run-level abort on length mismatch: when a run that has an output  *)
(* destination ends in the ValueError of the length check, no file has     *)
(* been written: the files of the filesystem are those the run started on. *)
(***************************************************************************)
C3_AbortBeforeWrite ==
    (status = "ValueError" /\ args.write_prefix # NoDest) =>
        /\ saves = <<>>
        /\ FilesOf(fs) = FilesOf(fs0)

(***************************************************************************)
(* C4.  Visited Set deduplication: no two yields of the scanner within one *)
(* run are of the same resolved path.                                      *)
(***************************************************************************)
C4_YieldedOnce ==
    \A i, j \in 1..Len(yielded) :
        i # j => Resolve(fs, yielded[i].path) # Resolve(fs, yielded[j].path)

(***************************************************************************)
(* C5.  Depth limit: every directory listed, every file whose header is    *)
(* read and every path yielded lies at most DepthLimit directory levels    *)
(* below the search root it was reached from.                              *)
(***************************************************************************)
C5_DepthLimit ==
    /\ \A l \in listed : Len(Comps(l.dir)) - Len(Comps(l.root)) <= DepthLimit
    /\ \A h \in hdrRead : LevelsBelow(h.root, h.path) <= DepthLimit
    /\ \A i \in 1..Len(yielded) : LevelsBelow(yielded[i].root, yielded[i].path) <= DepthLimit

(***************************************************************************)
(* C6.  Magic filter: every yielded path and every file opened as an ELF   *)
(* image has the 16 bytes of the magic as its first 16 bytes; a file whose *)
(* header is anything else is never yielded, opened, saved from or written.*)
(***************************************************************************)
C6_MagicFilter ==
    /\ \A i \in 1..Len(yielded) : ExactMagic(OnDisk(fs, yielded[i].path))
    /\ \A i \in 1..Len(opened) : ExactMagic(OnDisk(fs, opened[i]))
    /\ \A p \in DOMAIN fs0 :
          (fs0[p].kind = "file" /\ ~ExactMagic(fs0[p].image)) =>
              /\ p \in DOMAIN fs /\ fs[p] = fs0[p]
              /\ \A i \in 1..Len(saves) : saves[i].dst # p /\ Resolve(fs, saves[i].src) # p

\* the header of a file that is not an ELF was read, and the scan went on to
\* yield another file
C6_Witness ==
    /\ \E h \in hdrRead : ~ExactMagic(OnDisk(fs, h.path))
    /\ yielded # <<>>
    /\ pc = "done"

(***************************************************************************)
(* C7.  No-op run is fatal: a run whose search roots hold no file passing  *)
(* the filename, magic and feature criteria, and whose destination was     *)
(* accepted, ends only after the full scan, with the error of the          *)
(* __main__ block.                                                         *)
(***************************************************************************)
NoQualifying ==
    \A p \in DOMAIN fs0 :
        (\E i \in 1..Len(args.search_paths) : Under(Resolve(fs0, args.search_paths[i]), p))
            => ~Qualifies(fs0, p)

ScanComplete == rootIdx = Len(args.search_paths) /\ stack = <<>>

\* C7: a run over roots without a qualifying library completes the scan and
\* ends with the nothing-patched error, and with no other
C7_NoopFatal ==
    (pc = "done" /\ NoQualifying /\ write_prefix = args.write_prefix
        /\ status \notin {"NotADirectoryError", "FileExistsError"}) =>
            status = "NothingPatched" /\ ScanComplete /\ libraries = <<>>

(***************************************************************************)
(* C8 as claimed.  End to end: /lib holds only the directory sub, which    *)
(* holds the loader with "/dev/shm/" in its window and where_is_shmfs; the *)
(* run over /lib with the 16-byte NUL-padded "/tmp/shm/" and the           *)
(* destination /out ends successfully with a patched copy at               *)
(* /out/lib/sub/ld-linux.so and the source file unchanged.                 *)
(***************************************************************************)
E2ESource == Child(LibSub, LdLinuxSo)
E2ECopy == Child(Out, Tail(E2ESource))

EndToEnd(shm) ==
    /\ args.search_paths = <<Lib>>
    /\ args.write_prefix = Out
    /\ args.shm_folder = shm
    /\ IterDir(fs0, Lib) = {LibSub}
    /\ IterDir(fs0, LibSub) = {E2ESource, LibSubDeep}
    /\ fs0[E2ESource] = FileNode(GoodImage)
    /\ (Out \in DOMAIN fs0 => fs0[Out] = DirNode)

PatchedCopy ==
    /\ status = "ok"
    /\ E2ECopy \in DOMAIN fs
    /\ fs[E2ECopy].kind = "file"
    /\ StripNul(Window(fs[E2ECopy].image)) = Encode(TmpShm)
    /\ [at |-> GoodImage.fnaddr + PatchOffset, to |-> JmpTarget] \in fs[E2ECopy].image.jmps
    /\ fs[E2ESource] = fs0[E2ESource]

\* C8: the copy run with the NUL-padded 16-character replacement ends with the
\* patched copy under /out
C8_EndToEndPadded == (pc = "done" /\ EndToEnd(TmpShmPadded)) => PatchedCopy

(***************************************************************************)
(* C8 as amended.  The same run with the 9-character "/tmp/shm/" as        *)
(* shm_folder ends successfully with the patched copy and the source file  *)
(* unchanged.                                                              *)
(***************************************************************************)
C8_EndToEnd == (pc = "done" /\ EndToEnd(TmpShm)) => PatchedCopy

C8_Witness == pc = "done" /\ EndToEnd(TmpShm) /\ status = "ok" /\ Len(saves) = 1

(***************************************************************************)
(* C9 as claimed.  Copy mode: with any destination directory, every save   *)
(* writes to the destination joined with the resolved source path less its *)
(* leading separator, and the source file is as the run found it.          *)
(***************************************************************************)
Mirrored(s) == s.dst = PathJoin(write_prefix, Tail(Resolve(fs, s.src)))

SourceUntouched(s) ==
    LET src == Resolve(fs, s.src) IN src \in DOMAIN fs0 => fs[src] = fs0[src]

\* C9: with any destination, every save is to the mirrored path and leaves
\* its source as the run found it
C9_CopyLeavesSources ==
    args.write_prefix # NoDest =>
        \A i \in 1..Len(saves) : Mirrored(saves[i]) /\ SourceUntouched(saves[i])

(***************************************************************************)
(* C9 as amended.  Copy mode: with a destination directory that is not the *)
(* filesystem root and under which no library patched in the run lies,     *)
(* every save writes the patched image to the destination joined with the  *)
(* resolved source path less its leading separator, and the source file is *)
(* as the run found it.                                                    *)
(***************************************************************************)
DestApart ==
    /\ args.write_prefix \notin {NoDest, RootPath}
    /\ \A i \in 1..Len(libraries) : ~Under(write_prefix, Resolve(fs, libraries[i].path))

\* C9 as amended: the same for a destination other than the root under which
\* no patched library lies
C9_CopyLeavesSourcesAmended ==
    DestApart =>
        /\ Len(saves) = Len(libraries)
        /\ \A i \in 1..Len(saves) :
              /\ Mirrored(saves[i])
              /\ SourceUntouched(saves[i])
              /\ fs[saves[i].dst].kind = "file"
              /\ saves[i].attempt = library.attempt => fs[saves[i].dst].image = library.image

\* a library found through the link /lib64 was copied under /out
C9_Witness ==
    /\ DestApart
    /\ \E i \in 1..Len(saves) :
          /\ saves[i].src # Resolve(fs, saves[i].src)
          /\ fs[saves[i].dst].image # OnDisk(fs, saves[i].src)

(***************************************************************************)
(* C10.  Overwrite mode: with the prefix "/", every patched library is     *)
(* written to the file its own path leads to, and every other path of the  *)
(* filesystem holds what it held when the run started; no path is created. *)
(***************************************************************************)
C10_Overwrite ==
    args.write_prefix = RootPath =>
        /\ Len(saves) = Len(libraries)
        /\ DOMAIN fs = DOMAIN fs0
        /\ \A i \in 1..Len(saves) :
              /\ saves[i].dst = Resolve(fs0, saves[i].src)
              /\ saves[i].attempt = library.attempt => fs[saves[i].dst].image = library.image
        /\ \A p \in DOMAIN fs0 :
              (\A i \in 1..Len(saves) : saves[i].dst # p) => fs[p] = fs0[p]

\* a library was patched in place
C10_Witness ==
    /\ args.write_prefix = RootPath
    /\ saves # <<>>
    /\ fs # fs0

(***************************************************************************)
(* C11.  No-destination mode: in a run whose write_prefix is None the      *)
(* filesystem stays as the run found it, whatever number of libraries is   *)
(* patched: no file is created or changed, no directory is created and     *)
(* nothing is saved.                                                       *)
(***************************************************************************)
C11_NoDestination ==
    args.write_prefix = NoDest => fs = fs0 /\ saves = <<>>

\* a run without destination that patched two libraries
C11_Witness ==
    /\ args.write_prefix = NoDest
    /\ pc = "done"
    /\ status = "ok"
    /\ Len(libraries) >= 2

(***************************************************************************)
(* C12.  Destination validation precedes work: when the destination exists *)
(* and is not a directory the run leaves main's entry only to end with     *)
(* NotADirectoryError; and when it ends so no search root was taken, no    *)
(* directory listed, no header read, nothing yielded, opened, patched or   *)
(* saved, and the filesystem is as the run found it.                       *)
(***************************************************************************)
DestIsNotDir ==
    /\ args.write_prefix # NoDest
    /\ Resolve(fs0, args.write_prefix) # NoPath
    /\ ~IsDir(fs0, args.write_prefix)

\* C12: a destination that is not a directory ends the run before any work
C12_ValidationFirst ==
    /\ DestIsNotDir => (pc = "main" \/ (pc = "done" /\ status = "NotADirectoryError"))
    /\ status = "NotADirectoryError" =>
          /\ rootIdx = 0 /\ stack = <<>>
          /\ listed = {} /\ hdrRead = {} /\ yielded = <<>>
          /\ opened = <<>> /\ libraries = <<>> /\ saves = <<>>
          /\ fs = fs0

\* the run was given a file as its destination and has ended
C12_Witness == DestIsNotDir /\ status = "NotADirectoryError"

(***************************************************************************)
(* C13.  Single open image: the ELF objects that are still referenced (the *)
(* one patch_library has just returned, and those main appended to its     *)
(* result list) are at most one at every point of a run.                   *)
(***************************************************************************)
OpenImages ==
    {libraries[i].attempt : i \in 1..Len(libraries)}
        \cup (IF pc = "save" THEN {library.attempt} ELSE {})

\* C13: at most one ELF object is held at any time
C13_SingleOpenImage == Cardinality(OpenImages) <= 1

(***************************************************************************)
(* C14.  Scanner termination: every run, on every tree, links that lead    *)
(* back to themselves included, comes to its end.  The loop of lines       *)
(* 103-104 changes nothing but file, so a scanner that terminates is never *)
(* in that loop on a chain of links that leads back into itself.           *)
(***************************************************************************)
C14_ScannerTerminates == pc = "follow" => ChainEnds(fs, file, NumLinks(fs))

(***************************************************************************)
(* C15.  Scanner completeness: when the run has ended, every regular file  *)
(* whose name contains ".so", whose first 16 bytes are the magic and which *)
(* lies at most DepthLimit directory levels below a search root has been   *)
(* yielded by the traversal of that root.                                  *)
(***************************************************************************)
Candidate(f, p) ==
    /\ f[p].kind = "file"
    /\ Contains(PathName(p), SoMarker)
    /\ ExactMagic(f[p].image)

WithinLimit(f, root, p) ==
    /\ IsDir(f, root)
    /\ Under(Resolve(f, root), p)
    /\ LevelsBelow(Resolve(f, root), p) <= DepthLimit

YieldedFrom(root, p) ==
    \E k \in 1..Len(yielded) :
        yielded[k].root = root /\ Resolve(fs0, yielded[k].path) = p

\* C15: at the end of the run every candidate within the limit was yielded
C15_ScannerComplete ==
    pc = "done" =>
        \A i \in 1..Len(args.search_paths), p \in DOMAIN fs0 :
            (Candidate(fs0, p) /\ WithinLimit(fs0, args.search_paths[i], p))
                => YieldedFrom(args.search_paths[i], p)

(***************************************************************************)
(* C16.  Filename allow-list: every path opened as an ELF image has a name *)
(* that starts with "ld-linux" or "libpthread"; a file of any other name   *)
(* is never the source of a save and never recorded, and it holds what it  *)
(* held when the run started.                                              *)
(***************************************************************************)
LoaderOrThreading(name) ==
    IsPrefix(<<"ld-linux">>, name) \/ IsPrefix(<<"lib", "pthread">>, name)

\* C16: only names on the allow-list are opened, patched, recorded or saved
C16_AllowList ==
    /\ \A i \in 1..Len(opened) : LoaderOrThreading(PathName(opened[i]))
    /\ \A i \in 1..Len(libraries) : LoaderOrThreading(PathName(libraries[i].path))
    /\ \A p \in DOMAIN fs0 :
          (fs0[p].kind = "file" /\ ~LoaderOrThreading(PathName(p))) =>
              /\ p \in DOMAIN fs /\ fs[p] = fs0[p]
              /\ \A i \in 1..Len(saves) : Resolve(fs0, saves[i].src) # p

\* a file of another name was yielded to patch_library, and the run went on
\* to patch a library
C16_Witness ==
    /\ \E k \in 1..Len(yielded) : ~LoaderOrThreading(PathName(yielded[k].path))
    /\ libraries # <<>>
    /\ status = "ok"

(***************************************************************************)
(* C17.  Feature gate: a file whose image has neither the defaultdir       *)
(* symbol nor the where_is_shmfs function holds what it held when the run  *)
(* started; its image, once opened, is byte for byte the one on disk; it   *)
(* is not in main's list and is neither source nor target of a save.       *)
(***************************************************************************)
Featureless(img) ==
    "defaultdir" \notin img.symbols /\ "where_is_shmfs" \notin img.functions

\* C17: a library without either feature is neither changed, recorded nor saved
C17_FeatureGate ==
    \A p \in DOMAIN fs0 :
        (fs0[p].kind = "file" /\ Featureless(fs0[p].image)) =>
            /\ p \in DOMAIN fs /\ fs[p] = fs0[p]
            /\ \A i \in 1..Len(saves) : Resolve(fs0, saves[i].src) # p /\ saves[i].dst # p
            /\ \A i \in 1..Len(libraries) : Resolve(fs0, libraries[i].path) # p
            /\ (library.attempt > 0 /\ Resolve(fs0, library.path) = p) =>
                   library.image = fs0[p].image

\* a library without either feature was opened, and the run went on to
\* patch another
C17_Witness ==
    /\ \E i \in 1..Len(opened) : Featureless(OnDisk(fs0, opened[i]))
    /\ libraries # <<>>
    /\ saves # <<>>
    /\ status = "ok"

(***************************************************************************)
(* C18.  Mismatch stops the run: when the ValueError of the length check   *)
(* has been raised the run is at its end, the candidate it was raised on   *)
(* is the last one yielded and the last one opened, no save is of that     *)
(* attempt or a later one, and no step of the run follows.                 *)
(***************************************************************************)
C18_MismatchStops ==
    /\ [](status = "ValueError" =>
            /\ pc = "done"
            /\ yielded[Len(yielded)].path = library.path
            /\ opened[Len(opened)] = library.path
            /\ library.attempt = Len(opened)
            /\ \A i \in 1..Len(saves) : saves[i].attempt < library.attempt
            /\ \A i \in 1..Len(libraries) : libraries[i].attempt < library.attempt)
    /\ [][status = "ValueError" => UNCHANGED vars]_vars

\* the mismatch was raised while entries of the directory and a further
\* search root were still to come
C18_Witness ==
    /\ status = "ValueError"
    /\ stack # <<>>
    /\ (Top.todo # {} \/ Top.dirs # <<>>)
    /\ rootIdx < Len(args.search_paths)

(***************************************************************************)
(* C19.  Skips never abort: the step taken on a candidate that is skipped  *)
(* (a regular file whose header is not the magic; a yielded file whose     *)
(* name is not on the allow-list or whose image has neither feature)       *)
(* leaves the run running, at the scanner, with the filesystem and main's  *)
(* list as they were; and at every point main's list has one entry for     *)
(* every yield of a qualifying file that the run is done with.             *)
(***************************************************************************)
MagicSkip ==
    /\ pc = "follow"
    /\ ~IsSymlink(fs, file)
    /\ IsFile(fs, file)
    /\ ~ExactMagic(OnDisk(fs, file))

NameSkip == pc = "patch" /\ ~LoaderOrThreading(PathName(file))

FeatureSkip ==
    /\ pc = "patch"
    /\ LoaderOrThreading(PathName(file))
    /\ Featureless(OnDisk(fs, file))

\* the yield the run is still patching or saving, or that ended it
InProgress(k) ==
    /\ k = Len(yielded)
    /\ yielded[k].path = file
    /\ \/ pc \in {"patch", "save"}
       \/ status \in {"ValueError", "UnicodeDecodeError", "FileExistsError",
                      "IsADirectoryError"}

\* C19: a skip is followed by the scan going on, and no applicable library
\* is left out of main's list
C19_SkipsNeverAbort ==
    /\ [](Cardinality({k \in 1..Len(yielded) :
                          /\ ~InProgress(k)
                          /\ Qualifies(fs0, Resolve(fs0, yielded[k].path))})
            = Len(libraries))
    /\ [][(MagicSkip \/ NameSkip \/ FeatureSkip) =>
             /\ pc' = "scan"
             /\ status' = "running"
             /\ UNCHANGED <<fs, libraries, saves, rootIdx>>]_vars

\* a file that is no ELF and a file of another name were skipped, and a
\* library yielded after that was patched and recorded
C19_Witness ==
    /\ status = "ok"
    /\ \E h \in hdrRead : ~ExactMagic(OnDisk(fs, h.path))
    /\ \E k, k2 \in 1..Len(yielded) :
          /\ k < k2
          /\ ~LoaderOrThreading(PathName(yielded[k].path))
          /\ \E j \in 1..Len(libraries) : libraries[j].path = yielded[k2].path

(***************************************************************************)
(* C20.  Harness result agreement: handler never raises its ValueError;    *)
(* when it returns, it has drained limit values from the queue and the set *)
(* of them is the set of the values the locked map returned.               *)
(***************************************************************************)
C20_ResultsAgree ==
    /\ hpc # "raised"
    /\ hpc = "returned" =>
          /\ Len(result_q) = limit
          /\ DOMAIN result = Range(limit)
          /\ \A i \in 1..Len(result_q) : \E t \in DOMAIN result : result[t] = result_q[i]
          /\ \A t \in DOMAIN result : \E i \in 1..Len(result_q) : result_q[i] = result[t]

\* handler has returned after a map of MaxLimit calls whose values came off
\* the queue in another order than that of their arguments, one of them
\* computed with operator.add
C20_Witness ==
    /\ hpc = "returned"
    /\ limit = MaxLimit
    /\ \E i \in 1..limit : result_q[i] # result[i - 1]
    /\ \E t \in DOMAIN result : result[t] = SlowValue("add", t) /\ result[t] # SlowValue("pow", t)

(***************************************************************************)
(* C21  Code patch placement.  For a library with where_is_shmfs at any    *)
(* address A the patch writes one jump at A + 46 and nowhere else, and the *)
(* target of the jump minus (A + 46) is the same constant for every A.     *)
(***************************************************************************)
\* the images library.save has written in this run
SavedImages == {fs[saves[k].dst].image : k \in 1..Len(saves)}
\* the code of the image holds one jump, at the patch point
OneJumpAtPatchPoint(img) ==
    /\ Cardinality(img.jmps) = 1
    /\ \A j \in img.jmps : j.at = img.fnaddr + PatchOffset
\* libraries without the function hold no jump, the others one at A + 46
C21_Placement ==
    \A img \in SavedImages :
        IF "where_is_shmfs" \in img.functions THEN OneJumpAtPatchPoint(img)
        ELSE img.jmps = {}
\* the distance from the patch point to the target is one constant
C21_FixedOffset ==
    \A i1, i2 \in SavedImages : \A j1 \in i1.jmps, j2 \in i2.jmps :
        j1.to - j1.at = j2.to - j2.at
C21_CodePatchPlacement == C21_Placement /\ C21_FixedOffset

(***************************************************************************)
(* C22  Textual escape guard.  Every path traverse_tree yields and every   *)
(* directory it recurses into begins, as text, with the text of the        *)
(* traversal root; an entry whose text (after links are followed) does not *)
(* begin with it is never yielded, read or recursed into.                  *)
(***************************************************************************)
\* the origin of the call that yielded
YieldOrigin(y) == y.calls[Len(y.calls)].origin

C22_TextualGuard ==
    /\ \A k \in 1..Len(yielded) :
          /\ IsPrefix(YieldOrigin(yielded[k]), yielded[k].path)
          /\ IsPrefix(yielded[k].root, yielded[k].path)
    /\ \A l \in listed : IsPrefix(l.root, l.dir)
    /\ \A h \in hdrRead : IsPrefix(h.root, h.path)
\* a link in a listed directory led to a library whose text does not begin
\* with the root, and the run went on to its end
C22_Witness ==
    /\ pc = "done" /\ status = "ok"
    /\ \E l \in listed : \E p \in DOMAIN fs0 :
          /\ fs0[p].kind = "link"
          /\ Parent(p) = Resolve(fs0, l.dir)
          /\ ~IsPrefix(l.root, fs0[p].target)
          /\ IsFile(fs0, fs0[p].target)
          /\ ExactMagic(OnDisk(fs0, fs0[p].target))

(***************************************************************************)
(* C23  Yield order.  Within one call of traverse_tree on a directory,     *)
(* every qualifying file directly in that directory is yielded before any  *)
(* file found in one of its subdirectories.                                *)
(***************************************************************************)
\* call c made call d, or a call that led to it
CalledFrom(c, d) == Len(c) < Len(d) /\ SubSeq(d, 1, Len(c)) = c
\* in the traversal of one search root no file is yielded by a call after
\* a file was yielded by a call made from it
C23_YieldOrder ==
    \A i, j \in 1..Len(yielded) :
        (i < j /\ yielded[i].pass = yielded[j].pass)
            => ~CalledFrom(yielded[j].calls, yielded[i].calls)
\* one traversal yielded a file that lies in the root and, after it, a file
\* that lies in a subdirectory
C23_Witness ==
    \E i, j \in 1..Len(yielded) :
        /\ i < j /\ yielded[i].pass = yielded[j].pass
        /\ CalledFrom(yielded[i].calls, yielded[j].calls)
        /\ Parent(yielded[i].path) = YieldOrigin(yielded[i])
        /\ Parent(yielded[j].path) = YieldOrigin(yielded[j])

(***************************************************************************)
(* C24  String patch footprint.  A successful string patch changes only    *)
(* bytes inside the 16-byte window at defaultdir: it writes exactly as     *)
(* many bytes as the encoded replacement is long, starting at the address  *)
(* of the symbol, and leaves the rest of the window and every byte outside *)
(* the window as it was.                                                   *)
(***************************************************************************)
\* patch_library has returned the library with the string patched
StringPatched == pc = "save" /\ "defaultdir" \in library.image.symbols
\* the bytes of the image before and after the patch, and the replacement
BytesBefore == OnDisk(fs, library.path).data
BytesAfter == library.image.data
Replacement == Encode(ShmFolder)
C24_Footprint ==
    StringPatched =>
        LET a == library.image.ddaddr
            n == Len(Replacement)
        IN  /\ n <= WindowLen
            /\ Len(BytesAfter) = Len(BytesBefore)
            /\ \A i \in 1..Len(BytesAfter) :
                  IF i >= a /\ i < a + n THEN BytesAfter[i] = Replacement[i - a + 1]
                  ELSE BytesAfter[i] = BytesBefore[i]
\* a replacement was written over the start of a window that holds other
\* bytes than NUL after it, and those are still there
C24_Witness ==
    /\ StringPatched
    /\ Replacement # <<>>
    /\ BytesAfter # BytesBefore
    /\ \E i \in (library.image.ddaddr + Len(Replacement))..(library.image.ddaddr + WindowLen - 1) :
          BytesAfter[i] # NUL

(***************************************************************************)
(* C25  Run termination with destination inside a search root.  When the   *)
(* copy destination lies under one of the search roots, so that copies     *)
(* written during the lazy scan can be discovered later in the scan, main  *)
(* still terminates.                                                       *)
(***************************************************************************)
\* the destination of the run lies in a search root or below it
DestUnderRoot ==
    \E i \in 1..Len(args.search_paths) : Under(args.search_paths[i], args.write_prefix)
\* C25: a run that terminates is never in the loop of lines 103-104 on a
\* chain of links that leads back into itself: the loop changes nothing
\* but file, so from such a chain it never comes out
C25_TerminatesInside ==
    (DestUnderRoot /\ pc = "follow") => ChainEnds(fs, file, NumLinks(fs))

(***************************************************************************)
(* C26 as claimed.  Patch idempotence: applying patch_library a second     *)
(* time, with the same shm_folder, to a library that it has already        *)
(* patched succeeds without a length mismatch and leaves the window and    *)
(* the bytes of the function as they were after the first application.     *)
(***************************************************************************)
\* patch_library has just been applied to the library the run patched and
\* saved before
SecondApplication == library.attempt = 2 /\ Len(saves) = 1 /\ saves[1].attempt = 1
\* the second application returned the library as the first one left it
SameAsFirst ==
    /\ pc = "save"
    /\ status = "running"
    /\ Window(library.image) = Window(OnDisk(fs, library.path))
    /\ library.image.jmps = OnDisk(fs, library.path).jmps
\* C26: the second application succeeds and changes nothing
C26_Idempotent == SecondApplication => SameAsFirst

(***************************************************************************)
(* C26 as amended.  For a replacement that neither begins nor ends with a  *)
(* NUL character and a library whose window did not begin with a NUL byte  *)
(* (or a library without the defaultdir symbol), the second application    *)
(* succeeds and leaves the window and the bytes of the function as they    *)
(* were after the first.                                                   *)
(***************************************************************************)
C26_Applies ==
    "defaultdir" \in library.image.symbols =>
        (Window(OnDisk(fs0, library.path))[1] # NUL /\ NulFree(ShmFolder))
\* C26 as amended: the second application changes nothing when the window
\* did not begin with NUL and the replacement has no NUL at either end
C26_IdempotentAmended == (SecondApplication /\ C26_Applies) => SameAsFirst
\* a library with both features was patched to another string and a jump,
\* and patched again
C26_Witness ==
    /\ SecondApplication /\ C26_Applies /\ SameAsFirst
    /\ "defaultdir" \in library.image.symbols
    /\ Window(library.image) # Window(OnDisk(fs0, library.path))
    /\ library.image.jmps # {}

(***************************************************************************)
(* C27  Directories are never read as files.  An entry that is a           *)
(* directory is either queued for recursion or skipped; traverse_tree      *)
(* never opens a directory to read a header from it, so that a directory   *)
(* whose name contains ".so" at the depth limit is skipped without error.  *)
(***************************************************************************)
\* the open() of line 116 was called on the entry and raised
OpenedDirectory ==
    /\ pc = "done"
    /\ status = "IsADirectoryError"
    /\ stack # <<>>
    /\ IsDir(fs, file)
\* C27: no directory is opened, and none has its header read
C27_DirectoriesSkipped ==
    /\ ~OpenedDirectory
    /\ \A h \in hdrRead : ~IsDir(fs0, h.path)

(***************************************************************************)
(* C28  Digest cache expiry.  cached_digest_for returns the digest stored  *)
(* in the override file only while the expiry timestamp stored with it is  *)
(* still in the future; once the current time is past that timestamp, a    *)
(* call removes the file, queries digests_for again and stores the fresh   *)
(* digest with a new expiry of now + expires_in.                           *)
(***************************************************************************)
\* the last call found a file and returned its digest without a query
ServedStored == call.before # NoFile /\ ~call.queried /\ call.returned = call.before.sha
\* the last call found a file whose timestamp was past
FoundExpired == call.before # NoFile /\ call.at > call.before.t_s
\* the last call queried the registry and stored what it found
Renewed ==
    /\ call.queried
    /\ call.returned = call.fresh
    /\ call.after = [sha |-> call.fresh, t_s |-> call.at + call.expires_in]
\* C28: a stored digest is served only before its timestamp, and a call
\* past the timestamp renews the file
C28_DigestCacheExpiry ==
    /\ ServedStored => call.before.t_s > call.at
    /\ FoundExpired => Renewed
(***************************************************************************)
(* C29: during the locked map of handler at most 4 (the value the          *)
(* semaphore is made with) calls of slow_call are inside the section the   *)
(* semaphore guards, having entered it and not yet left it, whatever the   *)
(* size of the pool and the order of the steps.                            *)
(***************************************************************************)
InsideSection == {w \in DOMAIN workers : workers[w].st \in {"inside", "computed"}}

C29_SemaphoreBound ==
    (hpc = "map2" /\ lock) => Cardinality(InsideSection) <= SemaphoreValue

\* four calls are inside the section and a fifth one waits for a permit
C29_Witness ==
    /\ hpc = "map2"
    /\ lock
    /\ Cardinality(InsideSection) = SemaphoreValue
    /\ fork_semaphore = 0
    /\ \E w \in DOMAIN workers : workers[w].st = "called"

(***************************************************************************)
(* C30: for every limit >= 0 handler eventually returns: the locked map    *)
(* has put exactly limit values on the queue, every permit a call took is  *)
(* given back, so that the main process acquires the semaphore, and each   *)
(* of its limit calls of queue.get() obtains a value.                      *)
(***************************************************************************)
HandlerReturned ==
    /\ hpc = "returned"
    /\ Len(result_q) = limit
    /\ fork_queue = <<>>
    /\ \A w \in DOMAIN workers : feeder[w] = <<>>
    /\ fork_semaphore = SemaphoreValue

C30_HandlerReturns == <>HandlerReturned

\* handler has returned after the largest number of calls
C30_Witness == HandlerReturned /\ limit = MaxLimit

====
